---- MODULE Spec2Model ----
(***************************************************************************)
(* pyTimeTracker (src/pyTimeTracker.py): the project time-logging engine   *)
(* of TimeTrackerApp, as a state machine over the SQLite store             *)
(* (projects_master and the per-project log tables) and, per application   *)
(* process, the running-project slot, the visible tab and the list widget  *)
(* of the "Continue Tracking" tab.                                         *)
(*                                                                         *)
(* Text is a sequence of one-character strings, so that sanitising,        *)
(* splitting at ':' and int() are computed as the code computes them.      *)
(* A nullable column holds <<>> (NULL) or <<v>>.  A timestamp text         *)
(* "YYYY-MM-DD HH:MM:SS" is held as its count of whole seconds.            *)
(***************************************************************************)
EXTENDS Integers, Sequences, FiniteSets, TLC

VARIABLES
    master,                 \* projects_master rows, in rowid order
    tables,                 \* log tables of the store, by resolved table name
    now,                    \* wall clock, whole seconds
    current_project_id,     \* per process: self.current_project_id (0: None)
    current_project_table,  \* per process: self.current_project_table (<<>>: None)
    tab,                    \* per process: the tab shown
    project_list_widget,    \* per process: items of self.project_list_widget
    message_box,            \* the text of the last QMessageBox shown ("": none)
    handler,                \* the handler that ran last
    filter_combobox,        \* per process: items and current index of the filter
    total_time_label,       \* per process: the total shown by total_time_label
    pending                 \* per process: what start_recording holds between
                            \* its count and its INSERT (<<>>: not in between)

vars == <<master, tables, now, current_project_id, current_project_table,
          tab, project_list_widget, message_box, handler,
          filter_combobox, total_time_label, pending>>

\* The widgets of the "All Records" tab.
records == <<filter_combobox, total_time_label>>

store == <<master, tables>>

slot == <<current_project_id, current_project_table>>

(***************************************************************************)
(* Bounds of the model.                                                    *)
(***************************************************************************)
MaxProjects == 2

MaxIntervals == 3

MaxSharedProjects == 1

MaxSharedIntervals == 2

MaxTitlesIntervals == 2

MaxCycles == 3

MaxLegacyRows == 2

MaxLegacyIntervals == 3

(***************************************************************************)
(* Characters.                                                             *)
(***************************************************************************)
LowerCase == <<"a","b","c","d","e","f","g","h","i","j","k","l","m",
               "n","o","p","q","r","s","t","u","v","w","x","y","z">>

UpperCase == <<"A","B","C","D","E","F","G","H","I","J","K","L","M",
               "N","O","P","Q","R","S","T","U","V","W","X","Y","Z">>

DigitChar == <<"0","1","2","3","4","5","6","7","8","9">>

\* The characters of the model in byte order (BINARY collation).
ByteOrder == <<" ", ",", "-", ".", "/">> \o DigitChar \o <<":">> \o UpperCase
             \o <<"_">> \o LowerCase

Range(s) == { s[i] : i \in DOMAIN s }

IndexOf(s, c) == CHOOSE i \in DOMAIN s : s[i] = c

CodeTable == [ c \in Range(ByteOrder) |-> IndexOf(ByteOrder, c) ]

Code(c) == CodeTable[c]

Letters == Range(LowerCase) \cup Range(UpperCase)

DigitChars == Range(DigitChar)

isalnum(c) == c \in Letters \/ c \in DigitChars

UpperCaseChars == Range(UpperCase)

\* SQLite resolves identifiers without regard to ASCII letter case.
FoldTable == [ c \in UpperCaseChars |-> LowerCase[IndexOf(UpperCase, c)] ]

Fold(c) == IF c \in UpperCaseChars THEN FoldTable[c] ELSE c

Null == <<>>

Val(v) == <<v>>

IsNull(col) == col = <<>>

(***************************************************************************)
(* sanitize_table_name                                                     *)
(***************************************************************************)
Prefix == <<"p","r","o","j","e","c","t","_">>

ReplaceSpace(c) == IF c = " " THEN "_" ELSE c

KeepChar(c) == isalnum(c) \/ c = "_"

sanitize_table_name(title) ==
    Prefix \o SelectSeq([ i \in 1..Len(title) |-> ReplaceSpace(title[i]) ], KeepChar)

\* The table a quoted name in a statement resolves to.
ResolveTable(table_name) == [ i \in 1..Len(table_name) |-> Fold(table_name[i]) ]

(***************************************************************************)
(* Duration codec: str(timedelta), the HH:MM:SS of cumulative_time, and    *)
(* the "h, m, s = map(int, text.split(':'))" both readers use.             *)
(***************************************************************************)
SecondsPerMinute == 60

SecondsPerHour == 3600

SecondsPerDay == 86400

MicrosPerSecond == 1000000

RECURSIVE Digits(_)
\* "%d" of a non-negative integer.
Digits(n) == IF n < 10 THEN <<DigitChar[n + 1]>>
             ELSE Digits(n \div 10) \o <<DigitChar[(n % 10) + 1]>>

\* "%02d" / ":02d" of a non-negative integer.
Pad2(n) == IF n < 10 THEN <<"0">> \o Digits(n) ELSE Digits(n)

\* datetime.strptime(text, "%Y-%m-%d %H:%M:%S"): no microseconds.
strptime(seconds) == [sec |-> seconds, micro |-> 0]

\* datetime.strftime("%Y-%m-%d %H:%M:%S"): the microseconds are dropped.
strftime(dt) == dt.sec

\* datetime - datetime: a timedelta normalised to days, seconds, microseconds.
TimedeltaOf(end_dt, start_dt) ==
    LET borrow == IF end_dt.micro < start_dt.micro THEN 1 ELSE 0
        whole  == end_dt.sec - start_dt.sec - borrow
    IN  [days         |-> whole \div SecondsPerDay,
         seconds      |-> whole % SecondsPerDay,
         microseconds |-> (end_dt.micro - start_dt.micro) % MicrosPerSecond]

\* int(timedelta.total_seconds()): truncation toward zero.
TotalSecondsInt(td) ==
    LET whole == td.days * SecondsPerDay + td.seconds
    IN  IF whole < 0 /\ td.microseconds > 0 THEN whole + 1 ELSE whole

\* str(timedelta).split('.')[0]: "H:MM:SS", after "N day(s), " when days # 0.
TimedeltaStr(td) ==
    LET mm0 == td.seconds \div SecondsPerMinute
        ss  == td.seconds % SecondsPerMinute
        hh  == mm0 \div 60
        mm  == mm0 % 60
        hms == Digits(hh) \o <<":">> \o Pad2(mm) \o <<":">> \o Pad2(ss)
        mag == IF td.days < 0 THEN 0 - td.days ELSE td.days
        day == (IF td.days < 0 THEN <<"-">> ELSE <<>>) \o Digits(mag)
               \o <<" ","d","a","y">> \o (IF mag # 1 THEN <<"s">> ELSE <<>>)
               \o <<",", " ">>
    IN  IF td.days # 0 THEN day \o hms ELSE hms

\* f"{n // 3600:02d}:{(n % 3600) // 60:02d}:{n % 60:02d}"
CumulativeStr(n) ==
    Pad2(n \div SecondsPerHour) \o <<":">>
    \o Pad2((n % SecondsPerHour) \div SecondsPerMinute) \o <<":">>
    \o Pad2(n % SecondsPerMinute)

RECURSIVE Split(_, _)
\* text.split(sep) for a one-character separator.
Split(str, sep) ==
    IF \A i \in DOMAIN str : str[i] # sep THEN <<str>>
    ELSE LET k == CHOOSE i \in DOMAIN str :
                      str[i] = sep /\ \A j \in 1..(i - 1) : str[j] # sep
         IN  <<SubSeq(str, 1, k - 1)>> \o Split(SubSeq(str, k + 1, Len(str)), sep)

RECURSIVE strip(_)
\* str.strip() for blanks.
strip(str) ==
    IF str = <<>> THEN str
    ELSE IF Head(str) = " " THEN strip(Tail(str))
    ELSE IF str[Len(str)] = " " THEN strip(SubSeq(str, 1, Len(str) - 1))
    ELSE str

RECURSIVE DigitsValue(_)
DigitsValue(ds) ==
    IF ds = <<>> THEN 0
    ELSE DigitsValue(SubSeq(ds, 1, Len(ds) - 1)) * 10
         + (IndexOf(DigitChar, ds[Len(ds)]) - 1)

\* int(text): blanks stripped, an optional sign, then decimal digits only;
\* anything else raises ValueError.
IntBody(str) ==
    LET t == strip(str)
    IN  IF t # <<>> /\ Head(t) \in {"-", "+"} THEN Tail(t) ELSE t

IntOk(str) ==
    /\ IntBody(str) # <<>>
    /\ \A i \in DOMAIN IntBody(str) : IntBody(str)[i] \in DigitChars

IntOf(str) ==
    IF strip(str) # <<>> /\ Head(strip(str)) = "-"
    THEN 0 - DigitsValue(IntBody(str)) ELSE DigitsValue(IntBody(str))

\* Whether "h, m, s = map(int, text.split(':'))" runs without raising.
ParsesHMS(str) ==
    LET f == Split(str, ":")
    IN  Len(f) = 3 /\ \A i \in 1..3 : IntOk(f[i])

\* h * 3600 + m * 60 + s of a text that parses.
HMSSeconds(str) ==
    LET f == Split(str, ":")
    IN  IntOf(f[1]) * SecondsPerHour + IntOf(f[2]) * SecondsPerMinute + IntOf(f[3])

(***************************************************************************)
(* Store queries.                                                          *)
(***************************************************************************)
\* CREATE TABLE IF NOT EXISTS "<table_name>" (...)
CreateTableIfNotExists(tbls, table_name) ==
    IF ResolveTable(table_name) \in DOMAIN tbls THEN tbls
    ELSE [ k \in DOMAIN tbls \cup {ResolveTable(table_name)} |->
             IF k \in DOMAIN tbls THEN tbls[k] ELSE <<>> ]

TableExists(tbls, table_name) == ResolveTable(table_name) \in DOMAIN tbls

\* SELECT * FROM '<table_name>', in id order.
RowsOf(tbls, table_name) == tbls[ResolveTable(table_name)]

\* INSERT INTO '<table_name>' (start_time) VALUES (?) only if the table
\* holds no open row: the count and the INSERT as one statement.
InsertStartIfIdle(tbls, table_name, start_time) ==
    LET k == ResolveTable(table_name)
    IN  IF \E r \in DOMAIN tbls[k] : IsNull(tbls[k][r].end_time) THEN tbls
        ELSE [tbls EXCEPT ![k] = Append(@, [id              |-> Len(@) + 1,
                                            start_time      |-> Val(start_time),
                                            end_time        |-> Null,
                                            duration        |-> Null,
                                            cumulative_time |-> Null])]

\* INSERT INTO '<table_name>' (start_time) VALUES (?)
InsertStart(tbls, table_name, start_time) ==
    LET k == ResolveTable(table_name)
    IN  [tbls EXCEPT ![k] = Append(@, [id              |-> Len(@) + 1,
                                        start_time      |-> Val(start_time),
                                        end_time        |-> Null,
                                        duration        |-> Null,
                                        cumulative_time |-> Null])]

\* OpenIds without its WHERE clause: every row is taken for an open one.
OpenIdsNoWhere(tbls, table_name) == DOMAIN RowsOf(tbls, table_name)

\* The ids of the rows WHERE end_time IS NULL.
OpenIds(tbls, table_name) ==
    { i \in DOMAIN RowsOf(tbls, table_name) :
        IsNull(RowsOf(tbls, table_name)[i].end_time) }

\* OpenCount with the test turned round: WHERE end_time IS NOT NULL.
OpenCountNotNull(tbls, table_name) ==
    Cardinality({ i \in DOMAIN RowsOf(tbls, table_name) :
                    ~IsNull(RowsOf(tbls, table_name)[i].end_time) })

\* SELECT COUNT(*) FROM '<table_name>' WHERE end_time IS NULL
OpenCount(tbls, table_name) == Cardinality(OpenIds(tbls, table_name))

\* LastOpenId with ORDER BY id ASC: the oldest open row.
LastOpenIdAsc(tbls, table_name) ==
    CHOOSE i \in OpenIds(tbls, table_name) :
        \A j \in OpenIds(tbls, table_name) : i <= j

\* ... WHERE end_time IS NULL ORDER BY id DESC LIMIT 1
LastOpenId(tbls, table_name) ==
    CHOOSE i \in OpenIds(tbls, table_name) :
        \A j \in OpenIds(tbls, table_name) : j <= i

\* TitleRows without its WHERE clause finding the title: no row.
TitleRowsNone(m, title) == {}

\* SELECT ... FROM projects_master WHERE title = ?  (exact text)
TitleRows(m, title) == { i \in DOMAIN m : m[i].title = title }

\* TableNameTaken for a column table_name TEXT without UNIQUE.
TableNameNotUnique(m, table_name) == FALSE

\* table_name TEXT UNIQUE  (exact text)
TableNameTaken(m, table_name) == \E i \in DOMAIN m : m[i].table_name = table_name

RECURSIVE TextLess(_, _)
\* a < b in byte order.
TextLess(a, b) ==
    IF b = <<>> THEN FALSE
    ELSE IF a = <<>> THEN TRUE
    ELSE IF Head(a) # Head(b) THEN Code(Head(a)) < Code(Head(b))
    ELSE TextLess(Tail(a), Tail(b))

RECURSIVE SortTexts(_)
\* ORDER BY title ASC of a set of texts.
SortTexts(S) ==
    IF S = {} THEN <<>>
    ELSE LET least == CHOOSE a \in S : \A b \in S \ {a} : TextLess(a, b)
         IN  <<least>> \o SortTexts(S \ {least})

RECURSIVE SumRows(_, _)
SumRows(tbls, keys) ==
    IF keys = {} THEN 0
    ELSE LET k == CHOOSE x \in keys : TRUE
         IN  Len(tbls[k]) + SumRows(tbls, keys \ {k})

\* The number of interval rows of the whole store.
TotalRows(tbls) == SumRows(tbls, DOMAIN tbls)

(***************************************************************************)
(* load_projects: the titles, ORDER BY title ASC, whose table (named by    *)
(* sanitising the title again) counts no open row.                         *)
(***************************************************************************)
NoAvailable == <<"No available projects to track.">>

\* IsAvailable without the count of open rows: every project is listed.
IsAvailableAny(tbls, title) == TRUE

IsAvailable(tbls, title) == OpenCount(tbls, sanitize_table_name(title)) = 0

load_projects(m, tbls) ==
    LET titles    == SortTexts({ m[i].title : i \in DOMAIN m })
        available == SelectSeq(titles, LAMBDA t : IsAvailable(tbls, t))
    IN  IF \E i \in DOMAIN m : ~TableExists(tbls, sanitize_table_name(m[i].title))
        THEN <<>>                      \* sqlite3.Error after clear()
        ELSE IF available # <<>> THEN available ELSE <<NoAvailable>>

(***************************************************************************)
(* update_total_time and the filter of the "All Records" tab.              *)
(***************************************************************************)
\* f"{hours:02d}h {minutes:02d}m {seconds:02d}s" of a count of seconds.
format_time(total_seconds) ==
    Pad2(total_seconds \div SecondsPerHour) \o <<"h", " ">>
    \o Pad2((total_seconds % SecondsPerHour) \div SecondsPerMinute) \o <<"m", " ">>
    \o Pad2(total_seconds % SecondsPerMinute) \o <<"s">>

\* SELECT duration FROM '<table_name>', in id order.
DurationsOf(tbls, table_name) ==
    [ r \in DOMAIN RowsOf(tbls, table_name) |-> RowsOf(tbls, table_name)[r].duration ]

RECURSIVE AllDurationsDistinct(_, _)
\* AllDurations reading every table once: the later rows of projects_master
\* that name the table just read are passed over.
AllDurationsDistinct(m, tbls) ==
    IF m = <<>> THEN <<>>
    ELSE DurationsOf(tbls, Head(m).table_name)
         \o AllDurationsDistinct(
                SelectSeq(Tail(m), LAMBDA proj : ResolveTable(proj.table_name)
                                       # ResolveTable(Head(m).table_name)),
                tbls)

RECURSIVE AllDurations(_, _)
\* durations += fetchall(), for each table_name of projects_master in turn.
AllDurations(m, tbls) ==
    IF m = <<>> THEN <<>>
    ELSE DurationsOf(tbls, Head(m).table_name) \o AllDurations(Tail(m), tbls)

NotAvailable == <<"N", "/", "A">>

RECURSIVE SumDurationsBreak(_)
\* SumDurations with "break" for "continue": the sum ends at the first
\* duration that does not parse.
SumDurationsBreak(durations) ==
    IF durations = <<>> THEN 0
    ELSE LET dur == Head(durations)
         IN  IF IsNull(dur) \/ dur[1] = <<>> \/ dur[1] = NotAvailable
             THEN SumDurationsBreak(Tail(durations))
             ELSE IF ParsesHMS(dur[1])
             THEN HMSSeconds(dur[1]) + SumDurationsBreak(Tail(durations))
             ELSE 0

RECURSIVE SumDurations(_)
\* The loop over durations: None, "" and "N/A" are passed over, a text that
\* parses as h:m:s adds its seconds, any other is skipped by the bare except.
SumDurations(durations) ==
    IF durations = <<>> THEN 0
    ELSE LET dur == Head(durations)
         IN  IF IsNull(dur) \/ dur[1] = <<>> \/ dur[1] = NotAvailable
             THEN SumDurations(Tail(durations))
             ELSE IF ParsesHMS(dur[1])
             THEN HMSSeconds(dur[1]) + SumDurations(Tail(durations))
             ELSE SumDurations(Tail(durations))

\* SELECT title FROM projects_master WHERE id = ?  ("" when there is none)
get_project_title(m, proj_id) ==
    IF \E i \in DOMAIN m : m[i].id = proj_id
    THEN m[CHOOSE i \in DOMAIN m : m[i].id = proj_id].title
    ELSE <<>>

\* SELECT id FROM projects_master WHERE title = ?  (0: None)
get_project_id(m, title) ==
    IF TitleRows(m, title) # {}
    THEN m[CHOOSE i \in TitleRows(m, title) : TRUE].id
    ELSE 0

\* The text update_total_time puts on total_time_label; filter_project_id
\* is 0 for None.
update_total_time(m, tbls, filter_project_id) ==
    format_time(SumDurations(
        IF filter_project_id # 0
        THEN DurationsOf(tbls, sanitize_table_name(
                                   get_project_title(m, filter_project_id)))
        ELSE AllDurations(m, tbls)))

AllProjects == <<"All Projects">>

\* The filter as populate_filter_dropdown leaves it: "All Projects" and the
\* titles ORDER BY title ASC, the first item current.
populate_filter_dropdown(m) ==
    [items |-> <<AllProjects>> \o SortTexts({ m[i].title : i \in DOMAIN m }),
     index |-> 1]

\* A QComboBox without items: currentIndex() is -1, here 0.
EmptyFilter == [items |-> <<>>, index |-> 0]

(***************************************************************************)
(* Processes, inputs and messages.                                         *)
(***************************************************************************)
Procs == {"p1", "p2"}

\* Titles that collide in letter case ("ab", "AB") and after sanitising
\* ("a b", "a_b").
Titles == { <<"a","b">>, <<"A","B">>, <<"a"," ","b">>, <<"a","_","b">> }

\* What project_title_entry may hold: a title, nothing, or a blank.
Entries == Titles \cup { <<>>, <<" ">> }

Tabs == {"Main Menu", "Start Project", "Continue Tracking",
         "Running Project", "All Records"}

\* The microseconds datetime.now() may carry.
Micros == {0, 500000}

\* Those of a start: strftime cuts them before anything reads them.
StartMicros == {500000}

MsgNone == ""

MsgStarted == "Started tracking time for project"

MsgTitleExists == "A project with this title already exists."

MsgIntegrity == "A project with this title or table name already exists."

MsgNoTitle == "Please enter a project title."

MsgStopped == "Stopped tracking time for project ID"

MsgNoActiveLog == "No active time log found for this project."

MsgNoneRunning == "No project is currently running."

MsgAlreadyTracked == "This project is already being tracked."

MsgNotFound == "Project not found in the database."

MsgNoSelection == "Please select a project to start tracking."

MsgFailed == "Failed to start recording"

MsgOpenFound == "An open project was found. Please stop the timer."

\* Every process as __init__ leaves it, before any handler has run.
InitProcesses ==
    /\ current_project_id = [p \in Procs |-> 0]
    /\ current_project_table = [p \in Procs |-> <<>>]
    /\ tab = [p \in Procs |-> "Main Menu"]
    /\ project_list_widget = [p \in Procs |-> <<>>]
    /\ message_box = MsgNone
    /\ handler = "__init__"
    /\ filter_combobox = [p \in Procs |-> EmptyFilter]
    /\ total_time_label = [p \in Procs |-> format_time(0)]
    /\ pending = [p \in Procs |-> <<>>]

Init ==
    /\ master = <<>>
    /\ tables = <<>>
    /\ now = 0
    /\ InitProcesses

(***************************************************************************)
(* start_project: the "Start Project" button.  entry is the text of        *)
(* project_title_entry, elapsed the time since the clock was last read,    *)
(* micro the microseconds of datetime.now().                               *)
(***************************************************************************)
start_project(p, entry, elapsed, micro) ==
    LET title      == strip(entry)
        table_name == sanitize_table_name(title)
        created    == CreateTableIfNotExists(tables, table_name)
        new_id     == Len(master) + 1
        start_time == strftime([sec |-> now + elapsed, micro |-> micro])
        logged     == InsertStart(created, table_name, start_time)
        registered == Append(master, [id |-> new_id, title |-> title,
                                      table_name |-> table_name])
    IN
    /\ tab[p] = "Start Project"
    /\ handler' = "start_project"
    /\ UNCHANGED pending
    /\ IF title = <<>> THEN
          /\ message_box' = MsgNoTitle
          /\ UNCHANGED <<master, tables, now, current_project_id,
                         current_project_table, tab, project_list_widget,
                         records>>
       ELSE IF TitleRows(master, title) # {} THEN
          /\ message_box' = MsgTitleExists
          /\ UNCHANGED <<master, tables, now, current_project_id,
                         current_project_table, tab, project_list_widget,
                         records>>
       ELSE IF TableNameTaken(master, table_name) THEN
          \* sqlite3.IntegrityError, after the CREATE TABLE was committed
          /\ tables' = created
          /\ message_box' = MsgIntegrity
          /\ UNCHANGED <<master, now, current_project_id,
                         current_project_table, tab, project_list_widget,
                         records>>
       ELSE
          /\ master' = registered
          /\ tables' = logged
          /\ now' = now + elapsed
          /\ current_project_id' = [current_project_id EXCEPT ![p] = new_id]
          /\ current_project_table' =
                 [current_project_table EXCEPT ![p] = table_name]
          /\ project_list_widget' =
                 [project_list_widget EXCEPT ![p] = load_projects(registered, logged)]
          /\ filter_combobox' =
                 [filter_combobox EXCEPT ![p] = populate_filter_dropdown(registered)]
          /\ total_time_label' =
                 [total_time_label EXCEPT ![p] = update_total_time(registered, logged, 0)]
          /\ tab' = [tab EXCEPT ![p] = "Running Project"]
          /\ message_box' = MsgStarted

(***************************************************************************)
(* stop_project: the "Stop Recording" button.                              *)
(***************************************************************************)
RECURSIVE PreviousSeconds(_, _)
\* The sum over the rows with id < log_id AND duration IS NOT NULL of the
\* seconds of each duration that parses; one that does not is skipped.
PreviousSeconds(rows, log_id) ==
    IF log_id <= 1 THEN 0
    ELSE LET r == rows[log_id - 1]
             s == IF IsNull(r.duration) THEN 0
                  ELSE IF ParsesHMS(r.duration[1]) THEN HMSSeconds(r.duration[1])
                  ELSE 0
         IN  PreviousSeconds(rows, log_id - 1) + s

\* The row log_id as the UPDATE of stop_project leaves it.
ClosedRow(rows, log_id, end_time_dt) ==
    LET start_time_dt    == strptime(rows[log_id].start_time[1])
        duration         == TimedeltaOf(end_time_dt, start_time_dt)
        duration_seconds == TotalSecondsInt(duration)
        new_cumulative   == PreviousSeconds(rows, log_id) + duration_seconds
    IN  [rows[log_id] EXCEPT
           !.end_time        = Val(strftime(end_time_dt)),
           !.duration        = Val(TimedeltaStr(duration)),
           !.cumulative_time = Val(CumulativeStr(new_cumulative))]

\* UpdateStop without its WHERE clause: every row of the log is updated.
UpdateStopAllRows(tbls, table_name, log_id, end_time_dt) ==
    LET rows == RowsOf(tbls, table_name)
    IN  [tbls EXCEPT ![ResolveTable(table_name)] =
            [ i \in DOMAIN rows |-> ClosedRow(rows, i, end_time_dt) ]]

\* UPDATE '<table_name>' SET ... WHERE id = log_id
UpdateStop(tbls, table_name, log_id, end_time_dt) ==
    LET rows == RowsOf(tbls, table_name)
    IN  [tbls EXCEPT ![ResolveTable(table_name)] =
            [rows EXCEPT ![log_id] = ClosedRow(rows, log_id, end_time_dt)]]

stop_project(p, elapsed, micro) ==
    LET table_name == current_project_table[p]
        stopped    == UpdateStop(tables, table_name,
                                 LastOpenId(tables, table_name),
                                 [sec |-> now + elapsed, micro |-> micro])
    IN
    /\ tab[p] = "Running Project"
    /\ handler' = "stop_project"
    /\ UNCHANGED pending
    /\ IF current_project_id[p] = 0 \/ current_project_table[p] = <<>> THEN
          /\ message_box' = MsgNoneRunning
          /\ UNCHANGED <<master, tables, now, current_project_id,
                         current_project_table, tab, project_list_widget,
                         records>>
       ELSE IF OpenIds(tables, table_name) = {} THEN
          /\ message_box' = MsgNoActiveLog
          /\ UNCHANGED <<master, tables, now, current_project_id,
                         current_project_table, tab, project_list_widget,
                         records>>
       ELSE
          /\ tables' = stopped
          /\ now' = now + elapsed
          /\ current_project_id' = [current_project_id EXCEPT ![p] = 0]
          /\ current_project_table' = [current_project_table EXCEPT ![p] = <<>>]
          /\ project_list_widget' =
                 [project_list_widget EXCEPT ![p] = load_projects(master, stopped)]
          /\ filter_combobox' =
                 [filter_combobox EXCEPT ![p] = populate_filter_dropdown(master)]
          /\ total_time_label' =
                 [total_time_label EXCEPT ![p] = update_total_time(master, stopped, 0)]
          /\ tab' = [tab EXCEPT ![p] = "Main Menu"]
          /\ message_box' = MsgStopped
          /\ UNCHANGED master

(***************************************************************************)
(* start_recording: the "Start Recording" button.  selected is the sequence*)
(* of selected items of project_list_widget (none, or one).                *)
(***************************************************************************)
start_recording(p, selected, elapsed, micro) ==
    LET project_title == selected[1]
        result        == CHOOSE i \in TitleRows(master, project_title) : TRUE
        proj_id       == master[result].id
        table_name    == master[result].table_name
        start_time    == strftime([sec |-> now + elapsed, micro |-> micro])
    IN
    /\ tab[p] = "Continue Tracking"
    /\ handler' = "start_recording"
    /\ UNCHANGED pending
    /\ IF selected = <<>> THEN
          /\ message_box' = MsgNoSelection
          /\ UNCHANGED <<master, tables, now, current_project_id,
                         current_project_table, tab, project_list_widget,
                         records>>
       ELSE IF project_title = NoAvailable THEN
          /\ message_box' = MsgNone
          /\ UNCHANGED <<master, tables, now, current_project_id,
                         current_project_table, tab, project_list_widget,
                         records>>
       ELSE IF TitleRows(master, project_title) = {} THEN
          /\ message_box' = MsgNotFound
          /\ UNCHANGED <<master, tables, now, current_project_id,
                         current_project_table, tab, project_list_widget,
                         records>>
       ELSE IF ~TableExists(tables, table_name) THEN
          /\ message_box' = MsgFailed
          /\ UNCHANGED <<master, tables, now, current_project_id,
                         current_project_table, tab, project_list_widget,
                         records>>
       ELSE IF OpenCount(tables, table_name) > 0 THEN
          /\ message_box' = MsgAlreadyTracked
          /\ UNCHANGED <<master, tables, now, current_project_id,
                         current_project_table, tab, project_list_widget,
                         records>>
       ELSE
          /\ tables' = InsertStart(tables, table_name, start_time)
          /\ now' = now + elapsed
          /\ current_project_id' = [current_project_id EXCEPT ![p] = proj_id]
          /\ current_project_table' =
                 [current_project_table EXCEPT ![p] = table_name]
          /\ tab' = [tab EXCEPT ![p] = "Running Project"]
          /\ message_box' = MsgStarted
          /\ UNCHANGED <<master, project_list_widget, records>>

(***************************************************************************)
(* start_recording as the two statements another process may come          *)
(* between: the SELECT COUNT with what precedes it, and the INSERT         *)
(* with what follows it.                                                   *)
(***************************************************************************)
\* start_recording gets past its count: a listed project is selected, its
\* row and its table are found, and the table counts no open row.
PassesCount(selected) ==
    /\ selected # <<>>
    /\ selected[1] # NoAvailable
    /\ TitleRows(master, selected[1]) # {}
    /\ LET result == CHOOSE i \in TitleRows(master, selected[1]) : TRUE
       IN  /\ TableExists(tables, master[result].table_name)
           /\ OpenCount(tables, master[result].table_name) = 0

start_recording_count(p, selected) ==
    IF PassesCount(selected) THEN
       LET result == CHOOSE i \in TitleRows(master, selected[1]) : TRUE IN
       /\ tab[p] = "Continue Tracking"
       /\ pending' = [pending EXCEPT ![p] =
                         <<[proj_id    |-> master[result].id,
                            table_name |-> master[result].table_name]>>]
       /\ handler' = "start_recording_count"
       /\ message_box' = MsgNone
       /\ UNCHANGED <<master, tables, now, current_project_id,
                      current_project_table, tab, project_list_widget, records>>
    ELSE start_recording(p, selected, 0, 0)

start_recording_insert(p, elapsed, micro) ==
    LET proj_id    == pending[p][1].proj_id
        table_name == pending[p][1].table_name
        start_time == strftime([sec |-> now + elapsed, micro |-> micro])
    IN
    /\ pending[p] # <<>>
    /\ tables' = InsertStart(tables, table_name, start_time)
    /\ now' = now + elapsed
    /\ current_project_id' = [current_project_id EXCEPT ![p] = proj_id]
    /\ current_project_table' = [current_project_table EXCEPT ![p] = table_name]
    /\ tab' = [tab EXCEPT ![p] = "Running Project"]
    /\ message_box' = MsgStarted
    /\ handler' = "start_recording_insert"
    /\ pending' = [pending EXCEPT ![p] = <<>>]
    /\ UNCHANGED <<master, project_list_widget, records>>

\* What may be selected in the list widget: nothing, or one of its items.
Selections(p) == { <<>> } \cup { <<project_list_widget[p][i]>> :
                                    i \in DOMAIN project_list_widget[p] }

(***************************************************************************)
(* on_tab_change: another tab is shown (a click on the tab bar, a main     *)
(* menu button or a "Back to Main Menu" button).                           *)
(***************************************************************************)
on_tab_change(p, selected_tab) ==
    /\ selected_tab # tab[p]
    /\ tab' = [tab EXCEPT ![p] = selected_tab]
    /\ project_list_widget' =
          IF selected_tab = "Continue Tracking"
          THEN [project_list_widget EXCEPT ![p] = load_projects(master, tables)]
          ELSE project_list_widget
    /\ IF selected_tab = "All Records" THEN
          /\ filter_combobox' =
                 [filter_combobox EXCEPT ![p] = populate_filter_dropdown(master)]
          /\ total_time_label' =
                 [total_time_label EXCEPT ![p] = update_total_time(master, tables, 0)]
       ELSE UNCHANGED records
    /\ message_box' = MsgNone
    /\ handler' = "on_tab_change"
    /\ UNCHANGED <<master, tables, now, current_project_id,
                   current_project_table, pending>>

(***************************************************************************)
(* on_filter_select: another item of filter_combobox is chosen on the      *)
(* "All Records" tab; display_all_records ends with update_total_time.     *)
(***************************************************************************)
on_filter_select(p, index) ==
    LET selected == filter_combobox[p].items[index]
        proj_id  == IF selected = AllProjects THEN 0
                    ELSE get_project_id(master, selected)
    IN
    /\ tab[p] = "All Records"
    /\ index \in DOMAIN filter_combobox[p].items
    /\ index # filter_combobox[p].index
    /\ filter_combobox' = [filter_combobox EXCEPT ![p].index = index]
    /\ total_time_label' =
          [total_time_label EXCEPT ![p] = update_total_time(master, tables, proj_id)]
    /\ message_box' = MsgNone
    /\ handler' = "on_filter_select"
    /\ UNCHANGED <<master, tables, now, current_project_id,
                   current_project_table, tab, project_list_widget, pending>>

(***************************************************************************)
(* The process ends (closeEvent, or a crash) and the application is        *)
(* launched again: __init__ and load_last_db_location.                     *)
(***************************************************************************)
\* The master rows, in the order of SELECT id, title, table_name FROM
\* projects_master, whose table holds a row with end_time NULL.
open_projects(m, tbls) ==
    SelectSeq(m, LAMBDA proj : OpenIds(tbls, proj.table_name) # {})

\* Process p as __init__ and load_last_db_location leave it over the
\* store (m, tbls).
Launched(p, m, tbls) ==
    LET found == open_projects(m, tbls)
    IN
    /\ project_list_widget' = [project_list_widget EXCEPT ![p] = <<>>]
    /\ filter_combobox' = [filter_combobox EXCEPT ![p] = EmptyFilter]
    /\ total_time_label' = [total_time_label EXCEPT ![p] = format_time(0)]
    /\ pending' = [pending EXCEPT ![p] = <<>>]
    /\ handler' = "load_last_db_location"
    /\ IF found # <<>> THEN
          /\ current_project_id' = [current_project_id EXCEPT ![p] = found[1].id]
          /\ current_project_table' =
                 [current_project_table EXCEPT ![p] = found[1].table_name]
          /\ tab' = [tab EXCEPT ![p] = "Running Project"]
          /\ message_box' = MsgOpenFound
       ELSE
          /\ current_project_id' = [current_project_id EXCEPT ![p] = 0]
          /\ current_project_table' = [current_project_table EXCEPT ![p] = <<>>]
          /\ tab' = [tab EXCEPT ![p] = "Main Menu"]
          /\ message_box' = MsgNone

load_last_db_location(p) ==
    /\ Launched(p, master, tables)
    /\ UNCHANGED <<master, tables, now>>

(***************************************************************************)
(* start_project cut short: the process ends after the first `commits`     *)
(* of the three conn.commit() of start_project (after CREATE TABLE, after  *)
(* the INSERT into projects_master), and the application is launched       *)
(* again.                                                                  *)
(***************************************************************************)
start_project_interrupted(p, entry, commits) ==
    LET title      == strip(entry)
        table_name == sanitize_table_name(title)
        created    == CreateTableIfNotExists(tables, table_name)
        registered == Append(master, [id |-> Len(master) + 1, title |-> title,
                                      table_name |-> table_name])
    IN
    /\ tab[p] = "Start Project"
    /\ title # <<>>
    /\ TitleRows(master, title) = {}
    /\ tables' = created
    /\ \/ commits = 1 /\ master' = master
       \/ commits = 2 /\ ~TableNameTaken(master, table_name)
                      /\ master' = registered
    /\ Launched(p, master', created)
    /\ UNCHANGED now

(***************************************************************************)
(* Specifications.  A next-state relation runs the handlers of the         *)
(* processes P on the title entries T; G are the seconds that may pass     *)
(* before a start reads the clock and L those before a stop does; the      *)
(* store is kept within maxP projects and maxI interval rows.              *)
(***************************************************************************)
Within(maxP, maxI) == Len(master') <= maxP /\ TotalRows(tables') <= maxI

\* The points at which start_project may be cut short.
Commits == {1, 2}

NextOf(P, T, G, L, maxP, maxI) ==
    \E p \in P :
        \/ \E entry \in T, e \in G, us \in StartMicros :
              start_project(p, entry, e, us) /\ Within(maxP, maxI)
        \/ \E e \in L, us \in Micros : stop_project(p, e, us)
        \/ \E sel \in Selections(p), e \in G, us \in StartMicros :
              start_recording(p, sel, e, us) /\ Within(maxP, maxI)
        \/ \E t \in Tabs : on_tab_change(p, t)
        \/ \E index \in 1..(maxP + 1) : on_filter_select(p, index)
        \/ \E entry \in T, commits \in Commits :
              start_project_interrupted(p, entry, commits) /\ Within(maxP, maxI)
        \/ load_last_db_location(p)

\* One application process; two titles that differ in letter case only,
\* and an empty entry.
Next ==
    NextOf({"p1"}, { <<"a","b">>, <<"A","B">>, <<>> }, {1}, {1},
           MaxProjects, MaxIntervals)

Spec == Init /\ [][Next]_vars

\* Interval lengths: none, a minute, 125 s, a day.
Lengths == {0, 60, 125, 86400}

\* One process and one title, with start/stop cycles of every length.
NextCycles == NextOf({"p1"}, { <<"a","b">>, <<>> }, {1}, Lengths, 1, MaxCycles)

SpecCycles == Init /\ [][NextCycles]_vars

\* One application process; two titles that sanitise to one table name
\* ("a b", "a_b"), a title with a table of its own ("ab"), and a blank entry.
NextTitles ==
    NextOf({"p1"}, { <<"a"," ","b">>, <<"a","_","b">>, <<"a","b">>, <<" ">> },
           {1}, {1}, MaxProjects, MaxTitlesIntervals)

SpecTitles == Init /\ [][NextTitles]_vars

\* Duration texts a store file written earlier may hold, as both readers
\* provide for: one that parses (125 s), "N/A", one of two fields, and the
\* form str(timedelta) takes from a day on.
LegacyTexts ==
    { <<"0",":","0","2",":","0","5">>,
      NotAvailable,
      <<"0",":","0","1">>,
      <<"1"," ","d","a","y",","," ","0",":","0","0",":","0","0">> }

\* The duration column of such a file: NULL, or one of these texts.
LegacyDurations == { Null } \cup { Val(t) : t \in LegacyTexts }

\* A log of n closed rows with the given durations.
LegacyLog(durations) ==
    [ r \in DOMAIN durations |-> [id              |-> r,
                                  start_time      |-> Val(0),
                                  end_time        |-> Val(0),
                                  duration        |-> durations[r],
                                  cumulative_time |-> Null] ]

\* The application is launched on a new store, or on the store of project
\* "ab" whose log holds up to MaxLegacyRows such rows.
InitLegacy ==
    /\ \/ master = <<>> /\ tables = <<>>
       \/ \E n \in 1..MaxLegacyRows : \E durations \in [1..n -> LegacyDurations] :
             /\ master = <<[id |-> 1, title |-> <<"a","b">>,
                            table_name |-> sanitize_table_name(<<"a","b">>)]>>
             /\ tables = [ k \in {sanitize_table_name(<<"a","b">>)} |->
                             LegacyLog(durations) ]
    /\ now = 0
    /\ InitProcesses

\* One process and one title on such a store; a stop comes a minute after
\* its start.
NextLegacy == NextOf({"p1"}, { <<"a","b">>, <<>> }, {1}, {60}, 1, MaxLegacyIntervals)

SpecLegacy == InitLegacy /\ [][NextLegacy]_vars

\* Two application processes on one store file and one title.  Another
\* process may run between two statements of a handler: start_recording is
\* run as its two statements, and a process between them runs no other
\* handler.  Every clock read falls in the same second, and the filter of
\* the "All Records" tab is left on "All Projects".
NextShared ==
    \E p \in Procs :
        \/ /\ pending[p] = <<>>
           /\ \/ \E us \in StartMicros :
                    start_project(p, <<"a","b">>, 0, us)
                    /\ Within(MaxSharedProjects, MaxSharedIntervals)
              \/ \E us \in Micros : stop_project(p, 0, us)
              \/ \E sel \in Selections(p) : start_recording_count(p, sel)
              \/ \E t \in Tabs : on_tab_change(p, t)
              \/ \E commits \in Commits :
                    start_project_interrupted(p, <<"a","b">>, commits)
                    /\ Within(MaxSharedProjects, MaxSharedIntervals)
        \/ \E us \in StartMicros :
              start_recording_insert(p, 0, us)
              /\ Within(MaxSharedProjects, MaxSharedIntervals)
        \/ load_last_db_location(p)

SpecShared == Init /\ [][NextShared]_vars

(***************************************************************************)
(* Vocabulary of the claims, stated on the store itself.                   *)
(***************************************************************************)
\* The ids of the rows of a log whose end_time is NULL.
OpenRows(rows) == { i \in DOMAIN rows : rows[i].end_time = Null }

\* The log table of the master row i.
LogOf(i) == tables[ResolveTable(master[i].table_name)]

\* The projects that are Running: their log holds an open interval.
RunningProjects == { i \in DOMAIN master : OpenRows(LogOf(i)) # {} }

\* The seconds that passed in a step: what its handler was given as elapsed
\* if it read the clock (a handler that did not read it ignores elapsed).
Passed == now' - now

\* Process p holds a project in its running-project slot.
SlotTaken(p) == current_project_id[p] # 0 /\ current_project_table[p] # <<>>

\* C1: every project's log table holds at most one row whose end_time is null.
C1_OneOpenIntervalPerLog ==
    \A k \in DOMAIN tables : Cardinality(OpenRows(tables[k])) <= 1

\* C2: at most one project is Running at a time.  Two registered projects
\* that share one log table are counted once, so that the statement is not
\* stronger than the claim.
C2_OneRunningProject ==
    \A i, j \in RunningProjects :
        ResolveTable(master[i].table_name) = ResolveTable(master[j].table_name)

\* C3: a start (start_recording of a listed project, start_project of a new
\* title) made while the slot holds a different project is refused: it
\* reports no start, inserts no interval row and leaves the slot as it was.
C3_StartRefusedWhileAnotherRuns ==
    [][ \A p \in Procs : \A us \in Micros :
          SlotTaken(p) =>
            /\ \A sel \in Selections(p) :
                  ( /\ start_recording(p, sel, Passed, us)
                    /\ sel # <<>>
                    /\ \E i \in TitleRows(master, sel[1]) :
                          master[i].id # current_project_id[p] )
                  => ( /\ message_box' # MsgStarted
                       /\ tables' = tables
                       /\ slot' = slot )
            /\ \A entry \in Entries :
                  ( /\ start_project(p, entry, Passed, us)
                    /\ TitleRows(master, strip(entry)) = {}
                    /\ strip(entry) # <<>> )
                  => ( /\ message_box' # MsgStarted
                       /\ master' = master
                       /\ tables' = tables
                       /\ slot' = slot )
      ]_vars

\* C4: start_recording of a project whose log already holds an open interval
\* (the handler as a whole, or its part up to the count of open rows)
\* reports "already being tracked" and changes neither the registry, nor any
\* log table, nor the slot.
C4_StartTwiceLeavesStore ==
    [][ \A p \in Procs : \A us \in Micros :
          \A sel \in Selections(p) :
            ( /\ \/ start_recording(p, sel, Passed, us)
                 \/ start_recording_count(p, sel)
              /\ sel # <<>>
              /\ \E i \in DOMAIN master :
                    master[i].title = sel[1] /\ OpenRows(LogOf(i)) # {} )
            => ( /\ message_box' = MsgAlreadyTracked
                 /\ store' = store
                 /\ slot' = slot )
      ]_vars

\* C4's case: a start was refused as already tracked while a project runs.
C4_Witness ==
    /\ handler = "start_recording"
    /\ message_box = MsgAlreadyTracked
    /\ RunningProjects # {}

\* The slot of p names a log that holds no open interval, or is empty.
NothingToStop(p) ==
    IF SlotTaken(p)
    THEN OpenRows(tables[ResolveTable(current_project_table[p])]) = {}
    ELSE TRUE

\* C5: stop_project with an empty slot, or with a slot whose log holds no
\* open interval, reports that nothing runs, changes no interval row and
\* leaves the slot as it was.
C5_StopWithoutOpenInterval ==
    [][ \A p \in Procs : \A us \in Micros :
          ( stop_project(p, Passed, us) /\ NothingToStop(p) )
          => ( /\ message_box' \in {MsgNoneRunning, MsgNoActiveLog}
               /\ tables' = tables
               /\ slot' = slot )
      ]_vars

\* C5's case: a stop found the slot taken and no open interval in its log.
C5_Witness ==
    /\ handler = "stop_project"
    /\ message_box = MsgNoActiveLog
    /\ \E p \in Procs : SlotTaken(p)

\* Process p has started the project of master row i in this step: one row
\* more in its log, open, with start_time the clock just read; every other
\* row and table as before; the slot names the project.
StartedAs(p, i) ==
    LET k   == ResolveTable(master'[i].table_name)
        old == IF k \in DOMAIN tables THEN tables[k] ELSE <<>>
    IN  /\ DOMAIN tables' = DOMAIN tables \cup {k}
        /\ \A j \in DOMAIN tables : j # k => tables'[j] = tables[j]
        /\ Len(tables'[k]) = Len(old) + 1
        /\ \A r \in DOMAIN old : tables'[k][r] = old[r]
        /\ tables'[k][Len(old) + 1].start_time = Val(now')
        /\ tables'[k][Len(old) + 1].end_time = Null
        /\ \A r \in DOMAIN old : old[r].id # tables'[k][Len(old) + 1].id
        /\ current_project_id'[p] = master'[i].id
        /\ current_project_table'[p] = master'[i].table_name

\* Process p has stopped the project of its slot in this step: the open row
\* of highest id got end_time, duration and cumulative_time; every other row
\* and table is as before; the slot is empty.
StoppedAs(p) ==
    LET k   == ResolveTable(current_project_table[p])
        old == tables[k]
        top == CHOOSE i \in OpenRows(old) :
                   \A j \in OpenRows(old) : old[j].id <= old[i].id
    IN  /\ DOMAIN tables' = DOMAIN tables
        /\ \A j \in DOMAIN tables : j # k => tables'[j] = tables[j]
        /\ Len(tables'[k]) = Len(old)
        /\ \A r \in DOMAIN old : r # top => tables'[k][r] = old[r]
        /\ tables'[k][top].id = old[top].id
        /\ tables'[k][top].start_time = old[top].start_time
        /\ tables'[k][top].end_time = Val(now')
        /\ tables'[k][top].duration # Null
        /\ tables'[k][top].cumulative_time # Null
        /\ current_project_id'[p] = 0
        /\ current_project_table'[p] = <<>>

\* C6: a successful start of P (by start_project or start_recording) inserts
\* exactly one row in P's log, open and with start_time = now, and sets the
\* slot to P; a successful stop fills end_time, duration and cumulative_time
\* of the highest-id open row of the slot's project and empties the slot.
C6_StartInsertsStopCloses ==
    [][ \A p \in Procs : \A us \in Micros :
          /\ \A entry \in Entries :
                ( start_project(p, entry, Passed, us) /\ message_box' = MsgStarted )
                => ( /\ Len(master') = Len(master) + 1
                     /\ master'[Len(master')].title = strip(entry)
                     /\ StartedAs(p, Len(master')) )
          /\ \A sel \in Selections(p) :
                ( start_recording(p, sel, Passed, us) /\ message_box' = MsgStarted )
                => ( /\ master' = master
                     /\ \E i \in DOMAIN master :
                           master[i].title = sel[1] /\ StartedAs(p, i) )
          /\ ( stop_project(p, Passed, us) /\ message_box' = MsgStopped )
                => ( master' = master /\ StoppedAs(p) )
      ]_vars

\* C6's case: a stop closed the newer of two open rows of one log.
C6_Witness ==
    /\ handler = "stop_project"
    /\ message_box = MsgStopped
    /\ \E k \in DOMAIN tables : \E i, j \in DOMAIN tables[k] :
          /\ i < j
          /\ tables[k][i].end_time = Null
          /\ tables[k][j].end_time # Null

(***************************************************************************)
(* Reading the stored texts back, for the claims about durations.          *)
(***************************************************************************)
\* The seconds a duration text stands for: "H:MM:SS", or "N day(s), H:MM:SS".
ReadDuration(str) ==
    LET parts == Split(str, ",")
    IN  IF Len(parts) = 1 THEN HMSSeconds(str)
        ELSE IntOf(Split(parts[1], " ")[1]) * SecondsPerDay
             + HMSSeconds(strip(parts[2]))

\* The seconds between the start_time and the end_time of a closed row.
SpanOf(row) == row.end_time[1] - row.start_time[1]

RECURSIVE SpanSum(_, _)
\* The sum of the spans of the rows 1..n of a log.
SpanSum(log, n) == IF n = 0 THEN 0 ELSE SpanSum(log, n - 1) + SpanOf(log[n])

\* The rows 1..n of a log are all closed.
ClosedUpTo(log, n) == n <= Len(log) /\ \A r \in 1..n : log[r].end_time # Null

\* A text is zero-padded HH:MM:SS: three fields of digits, two or more for
\* the hours, two for the minutes and two for the seconds.
IsHHMMSS(str) ==
    LET f == Split(str, ":")
    IN  /\ Len(f) = 3
        /\ \A i \in 1..3 : \A j \in DOMAIN f[i] : f[i][j] \in DigitChars
        /\ Len(f[1]) >= 2
        /\ Len(f[2]) = 2
        /\ Len(f[3]) = 2

\* C7: start_project of a new title followed at once by stop_project leaves
\* the project's log with exactly one interval, closed, whose duration is
\* end_time - start_time in whole seconds and whose cumulative_time equals
\* its duration.
C7_FreshStartThenStop ==
    [][ \A p \in Procs : \A us \in Micros :
          ( /\ handler = "start_project"
            /\ message_box = MsgStarted
            /\ current_project_id[p] = Len(master)
            /\ stop_project(p, Passed, us)
            /\ message_box' = MsgStopped )
          => LET log == tables'[ResolveTable(current_project_table[p])]
             IN  /\ Len(log) = 1
                 /\ log[1].end_time # Null
                 /\ ReadDuration(log[1].duration[1]) = SpanOf(log[1])
                 /\ ReadDuration(log[1].cumulative_time[1])
                      = ReadDuration(log[1].duration[1])
      ]_vars

\* C8: after three consecutive start/stop cycles on one project the three
\* cumulative_time values are, in order, the running sums d1, d1 + d2 and
\* d1 + d2 + d3 of the three durations.  (That the values also increase
\* strictly is left out: it fails by itself for an interval of no length.)
C8_CumulativeIsRunningSum ==
    \A i \in DOMAIN master :
        ClosedUpTo(LogOf(i), 3) =>
            \A r \in 1..3 :
                ReadDuration(LogOf(i)[r].cumulative_time[1]) = SpanSum(LogOf(i), r)

\* C9: within every project cumulative_time does not decrease from a closed
\* interval to a closed interval of higher id.
C9_CumulativeNonDecreasing ==
    \A i \in DOMAIN master : \A a, b \in DOMAIN LogOf(i) :
        ( a < b /\ LogOf(i)[a].end_time # Null /\ LogOf(i)[b].end_time # Null )
        => ReadDuration(LogOf(i)[a].cumulative_time[1])
             <= ReadDuration(LogOf(i)[b].cumulative_time[1])

\* C10: every closed interval stores duration and cumulative_time as
\* zero-padded HH:MM:SS with the hours not wrapped at 24, so that the
\* duration text read as hours, minutes and seconds is the interval's length
\* (125 s is "00:02:05", a day is "24:00:00").
C10_StoredAsHHMMSS ==
    \A k \in DOMAIN tables : \A r \in DOMAIN tables[k] :
        tables[k][r].end_time # Null =>
            /\ IsHHMMSS(tables[k][r].duration[1])
            /\ IsHHMMSS(tables[k][r].cumulative_time[1])
            /\ HMSSeconds(tables[k][r].duration[1]) = SpanOf(tables[k][r])

(***************************************************************************)
(* Reading total_time_label back, for the claims about totals.             *)
(***************************************************************************)
\* The seconds a label text "HHh MMm SSs" stands for.
ReadTotal(label) ==
    LET f     == Split(label, " ")
        n(i)  == IntOf(SubSeq(f[i], 1, Len(f[i]) - 1))
    IN  n(1) * SecondsPerHour + n(2) * SecondsPerMinute + n(3)

\* total_seconds(p): what the label shows with the filter on the project of
\* master row i; total_seconds(none): what it shows on "All Projects".
ProjectTotal(i) == ReadTotal(update_total_time(master, tables, master[i].id))

GlobalTotal == ReadTotal(update_total_time(master, tables, 0))

RECURSIVE ProjectTotals(_)
\* The sum of total_seconds(p) over the master rows 1..n.
ProjectTotals(n) == IF n = 0 THEN 0 ELSE ProjectTotals(n - 1) + ProjectTotal(n)

WellFormed(str) ==
    LET f == Split(str, ":")
    IN  /\ Len(f) = 3
        /\ \A i \in 1..3 : f[i] # <<>> /\ \A j \in DOMAIN f[i] : f[i][j] \in DigitChars

\* A duration column that holds a well-formed text.
Counts(duration) == duration # Null /\ WellFormed(duration[1])

RECURSIVE CleanSeconds(_)
\* The total of a sequence of duration columns as if every NULL and every
\* malformed text were absent: the sum of the seconds of the others.
CleanSeconds(durations) ==
    IF durations = <<>> THEN 0
    ELSE (IF Counts(Head(durations)) THEN HMSSeconds(Head(durations)[1]) ELSE 0)
         + CleanSeconds(Tail(durations))

\* The duration columns of the rows 1..n of a log.
DurationsUpTo(log, n) == [ r \in 1..n |-> log[r].duration ]

\* C12: aggregation over logs that hold malformed durations ("N/A", a wrong
\* number of fields, the day form) or NULL durations does not raise and
\* gives the total as if those rows were absent: whenever the total label is
\* written (the "All Records" tab is entered, a filter item is chosen) it
\* shows the sum of the well-formed durations read, and a stop of an open
\* interval completes and stores as cumulative_time the sum of the
\* well-formed durations of the rows of smaller id plus its own length.
C12_MalformedDurationsAreSkipped ==
    [][ \A p \in Procs :
          /\ on_tab_change(p, "All Records")
                => ReadTotal(total_time_label'[p])
                     = CleanSeconds(AllDurations(master, tables))
          /\ \A index \in DOMAIN filter_combobox[p].items :
                on_filter_select(p, index)
                => ReadTotal(total_time_label'[p])
                     = CleanSeconds(
                         IF index = 1 THEN AllDurations(master, tables)
                         ELSE DurationsOf(tables, sanitize_table_name(
                                              filter_combobox[p].items[index])))
          /\ \A us \in Micros :
                ( stop_project(p, Passed, us) /\ ~NothingToStop(p) )
                => LET k   == ResolveTable(current_project_table[p])
                       top == CHOOSE i \in OpenRows(tables[k]) :
                                  \A j \in OpenRows(tables[k]) : j <= i
                   IN  /\ message_box' = MsgStopped
                       /\ tables'[k][top].cumulative_time
                            = Val(CumulativeStr(
                                CleanSeconds(DurationsUpTo(tables[k], top - 1))
                                + SpanOf(tables'[k][top])))
      ]_vars

\* C12's case: a stop has closed an interval of a log in which a malformed
\* duration comes before a well-formed one, and the total label was written.
C12_Witness ==
    /\ handler = "stop_project"
    /\ message_box = MsgStopped
    /\ \E k \in DOMAIN tables : \E a, b, c \in DOMAIN tables[k] :
          /\ a < b /\ b < c
          /\ tables[k][a].duration # Null
          /\ ~WellFormed(tables[k][a].duration[1])
          /\ Counts(tables[k][b].duration)
          /\ tables[k][c].cumulative_time # Null
          /\ \E p \in Procs : ReadTotal(total_time_label[p]) > 0

(***************************************************************************)
(* Startup recovery.                                                       *)
(***************************************************************************)
\* The running project that comes first in listing order, title ascending.
FirstRunningByTitle ==
    CHOOSE i \in RunningProjects :
        \A j \in RunningProjects \ {i} : TextLess(master[i].title, master[j].title)

C14_SameTableNameIsRefused ==
    [][ /\ \A p \in Procs : \A us \in Micros : \A entry \in Entries :
             ( /\ start_project(p, entry, Passed, us)
               /\ strip(entry) # <<>>
               /\ \A i \in DOMAIN master : master[i].title # strip(entry)
               /\ \E i \in DOMAIN master :
                     master[i].table_name = sanitize_table_name(strip(entry)) )
             => ( /\ message_box' = MsgIntegrity
                  /\ store' = store
                  /\ slot' = slot )
        /\ \A i, j \in DOMAIN master' :
             master'[i].table_name = master'[j].table_name => i = j
      ]_vars

\* C14's case: a start_project was refused for its table name while the
\* project that holds the name has an interval logged.
C14_Witness ==
    /\ handler = "start_project"
    /\ message_box = MsgIntegrity
    /\ \E i \in DOMAIN master : Len(LogOf(i)) > 0

\* C15: start_project with a title that is already registered shows the
\* "title already exists" warning and adds no registry row, no log table and
\* no interval row, and keeps the slot; no two registered projects share a
\* title.
C15_DuplicateTitleIsRefused ==
    [][ /\ \A p \in Procs : \A us \in Micros : \A entry \in Entries :
             ( /\ start_project(p, entry, Passed, us)
               /\ \E i \in DOMAIN master : master[i].title = strip(entry) )
             => ( /\ message_box' = MsgTitleExists
                  /\ store' = store
                  /\ slot' = slot )
        /\ \A i, j \in DOMAIN master' :
             master'[i].title = master'[j].title => i = j
      ]_vars

\* C15's case: a start_project was refused for its title.
C15_Witness ==
    /\ handler = "start_project"
    /\ message_box = MsgTitleExists
    /\ master # <<>>

(***************************************************************************)
(* Atomic creation, closed rows, order of the intervals.                   *)
(***************************************************************************)
\* C16: project creation is atomic: in every reachable state, also after
\* start_project was cut short between its commits, a log table exists if
\* and only if a registry row names it.  Names are compared as the store
\* resolves them, so that two titles sharing one table do not count here.
C16_CreationIsAtomic ==
    /\ \A k \in DOMAIN tables :
          \E i \in DOMAIN master : ResolveTable(master[i].table_name) = k
    /\ \A i \in DOMAIN master : TableExists(tables, master[i].table_name)

\* The rows of the store that differ between the two states of a step.
ChangedRows ==
    { <<k, id>> \in UNION { {k} \X DOMAIN tables[k] : k \in DOMAIN tables } :
        tables'[k][id] # tables[k][id] }

\* C17: a closed interval is never changed or deleted.  In every step no
\* table and no row is removed, every row that was closed is the same
\* afterwards, a row that changes was open and is closed afterwards with its
\* id and start_time kept (one insert, one stop update per row), and
\* stop_project changes no row but the one open row it closes and adds none.
C17_ClosedRowsAreImmutable ==
    [][ /\ \A k \in DOMAIN tables :
              /\ k \in DOMAIN tables'
              /\ Len(tables'[k]) >= Len(tables[k])
        /\ \A c \in ChangedRows :
              LET old == tables[c[1]][c[2]]
                  new == tables'[c[1]][c[2]]
              IN  /\ IsNull(old.end_time)
                  /\ ~IsNull(new.end_time)
                  /\ new.id = old.id
                  /\ new.start_time = old.start_time
        /\ (\E p \in Procs : \E us \in Micros : stop_project(p, Passed, us))
              => /\ Cardinality(ChangedRows) <= 1
                 /\ \A k \in DOMAIN tables : Len(tables'[k]) = Len(tables[k])
      ]_vars

\* C17's case: stop_project has closed the second interval of a log whose
\* first interval was closed before.
C17_Witness ==
    /\ handler = "stop_project"
    /\ message_box = MsgStopped
    /\ \E k \in DOMAIN tables :
          /\ Len(tables[k]) >= 2
          /\ OpenRows(tables[k]) = {}
          /\ tables[k][1].end_time[1] < tables[k][2].end_time[1]

\* C18: in every log, in id order, every closed interval ends no earlier
\* than it starts, and an interval that follows a closed one starts no
\* earlier than that one ended.
C18_IntervalsDoNotOverlap ==
    \A k \in DOMAIN tables :
        /\ \A i \in DOMAIN tables[k] :
              ~IsNull(tables[k][i].end_time)
                  => tables[k][i].end_time[1] >= tables[k][i].start_time[1]
        /\ \A i \in DOMAIN tables[k] :
              (i > 1 /\ ~IsNull(tables[k][i - 1].end_time))
                  => tables[k][i].start_time[1] >= tables[k][i - 1].end_time[1]

(***************************************************************************)
(* The list of the "Continue Tracking" tab.                                *)
(***************************************************************************)
\* The titles of the registered projects whose log holds no open interval.
IdleTitles == { master[i].title : i \in { j \in DOMAIN master :
                                             OpenRows(LogOf(j)) = {} } }

\* C19: the list the "Continue Tracking" tab is loaded with holds exactly
\* the titles of the registered projects with no open interval, each once,
\* in ascending order of title (the placeholder line alone when there is
\* none), so a started project is absent and a stopped one is back; and
\* starting a project of the list succeeds and logs an open interval for it.
C19_ListIsTheIdleProjects ==
    [][ \A p \in Procs :
          /\ on_tab_change(p, "Continue Tracking")
                => LET w == project_list_widget'[p]
                   IN  IF IdleTitles = {} THEN w = <<NoAvailable>>
                       ELSE /\ Range(w) = IdleTitles
                            /\ \A a, b \in DOMAIN w :
                                  a < b => TextLess(w[a], w[b])
          /\ \A us \in Micros : \A t \in Range(project_list_widget[p]) :
                (t # NoAvailable /\ start_recording(p, <<t>>, Passed, us))
                => /\ message_box' = MsgStarted
                   /\ \E i \in DOMAIN master :
                         /\ master[i].title = t
                         /\ current_project_id'[p] = master[i].id
                         /\ OpenRows(tables'[ResolveTable(master[i].table_name)])
                               # {}
      ]_vars

\* C19's case: the list was loaded while one project was running and
\* another had been started and stopped; it holds the second and not the
\* first.
C19_Witness ==
    /\ handler = "on_tab_change"
    /\ tab["p1"] = "Continue Tracking"
    /\ \E i, j \in DOMAIN master :
          /\ OpenRows(LogOf(i)) # {}
          /\ master[i].title \notin Range(project_list_widget["p1"])
          /\ OpenRows(LogOf(j)) = {}
          /\ Len(LogOf(j)) > 0
          /\ master[j].title \in Range(project_list_widget["p1"])

(***************************************************************************)
(* Two processes on one store.                                             *)
(***************************************************************************)
\* C20: the count of open rows and the INSERT of start_recording are two
\* statements, and the INSERT does not look at the log again: whenever a
\* process that has passed the count inserts, the log gains an open row,
\* also when another process has started the project in between.  (The
\* interleaving that leaves two open intervals is C20_Witness.)
C20_InsertDoesNotCheckAgain ==
    [][ \A p \in Procs : \A us \in Micros :
          start_recording_insert(p, Passed, us)
          => LET k == ResolveTable(pending[p][1].table_name)
             IN  /\ Len(tables'[k]) = Len(tables[k]) + 1
                 /\ Cardinality(OpenRows(tables'[k]))
                       = Cardinality(OpenRows(tables[k])) + 1
                 /\ message_box' = MsgStarted
      ]_vars

\* C20's case: both processes have passed the count for one project and
\* both have inserted; its log holds two open intervals and both slots
\* hold the project.
C20_Witness ==
    /\ handler = "start_recording_insert"
    /\ pending["p1"] = <<>> /\ pending["p2"] = <<>>
    /\ current_project_id["p1"] # 0
    /\ current_project_id["p1"] = current_project_id["p2"]
    /\ \E i \in DOMAIN master :
          /\ master[i].id = current_project_id["p1"]
          /\ Cardinality(OpenRows(LogOf(i))) = 2

(***************************************************************************)
(* The slot and the store of one process.                                  *)
(***************************************************************************)
\* C21: with one process, the running-project slot is occupied exactly
\* when some registered project has an open interval, and an occupied slot
\* names a project (id and table) whose log holds an open interval.
C21_SlotMatchesOpenInterval ==
    /\ SlotTaken("p1") <=> RunningProjects # {}
    /\ SlotTaken("p1")
          => \E i \in RunningProjects :
                /\ master[i].id = current_project_id["p1"]
                /\ master[i].table_name = current_project_table["p1"]

\* The highest id of the closed rows of a log that has one.
LastClosed(log) ==
    CHOOSE r \in DOMAIN log :
        /\ log[r].end_time # Null
        /\ \A q \in DOMAIN log : log[q].end_time # Null => q <= r

\* C22: for every project whose log holds a closed interval, the
\* cumulative_time of the closed interval of highest id, read as seconds, is
\* the project's total as update_total_time computes it, whatever the
\* lengths of the intervals.
C22_CumulativeEqualsTotal ==
    \A i \in DOMAIN master :
        (\E r \in DOMAIN LogOf(i) : LogOf(i)[r].end_time # Null)
        => ReadDuration(LogOf(i)[LastClosed(LogOf(i))].cumulative_time[1])
             = ProjectTotal(i)

(***************************************************************************)
(* The slot over a restart.                                                *)
(***************************************************************************)
\* C23: when the application is launched again while the slot of the
\* process held project P, recovery puts P (id and table) into the slot
\* again; and a stop that follows recovery changes only an open row, keeps
\* its start_time and stores as duration the time from that start_time to
\* the stop.
C23_RestartKeepsTheSlot ==
    [][ \A p \in Procs :
          /\ (load_last_db_location(p) /\ SlotTaken(p))
                => /\ current_project_id'[p] = current_project_id[p]
                   /\ current_project_table'[p] = current_project_table[p]
          /\ \A us \in Micros :
                ( /\ stop_project(p, Passed, us)
                  /\ handler = "load_last_db_location" )
                => \A c \in ChangedRows :
                      LET old == tables[c[1]][c[2]]
                          new == tables'[c[1]][c[2]]
                      IN  /\ IsNull(old.end_time)
                          /\ new.start_time = old.start_time
                          /\ new.end_time = Val(now')
                          /\ ReadDuration(new.duration[1])
                                = now' - old.start_time[1]
      ]_vars

(***************************************************************************)
(* One log table per project.                                              *)
(***************************************************************************)
\* C24: no two registered projects read or write the same log table: the
\* table names of two registry rows never resolve to one table of the store.
C24_NoSharedLogTable ==
    \A i, j \in DOMAIN master :
        ResolveTable(master[i].table_name) = ResolveTable(master[j].table_name)
            => i = j

====
